---- MODULE Spec2Model ----
(***************************************************************************)
(* Model of sync/sync-worker.py: the yield sync worker that copies the     *)
(* day-by-day output of a remote stored procedure into the local SQLite    *)
(* store with change detection, a history ledger (yield_data_history), a   *)
(* run log (sync_log) and a per-dataset watermark (sync_status); and the   *)
(* sales and tank syncs, which delete and re-insert the rows of a window.  *)
(*                                                                         *)
(* Conventions                                                             *)
(*  - A nullable value is a sequence of length 0 (None) or 1 (Some(v)).    *)
(*  - A date STRING 'YYYY-MM-DD' is the triple <<y, m, d>>; strings of     *)
(*    that fixed, zero-padded shape compare as the triples do, so the      *)
(*    string comparison of main() is the lexicographic order StrGT.        *)
(*  - A datetime is an ordinal: the number of days since 2025-01-01        *)
(*    (December 2024 has the ordinals -31 .. -1).  strftime and strptime   *)
(*    are the conversions between the two.                                 *)
(*  - datetime.now() is observed at day granularity (the variable today).  *)
(*  - The SQLite connection of sync_yield_data is modelled by two copies   *)
(*    of the yield_data table: yield_data is what the connection sees      *)
(*    (its uncommitted writes included), yield_data_committed is what is   *)
(*    durable.  conn.commit() copies the first to the second, closing the  *)
(*    connection without a commit copies the second to the first.          *)
(*  - sync_sales_data has its own connection (sales_data and               *)
(*    sales_data_committed); sync_tank_data commits once or not at all,    *)
(*    so tank_data is the durable table only.                              *)
(*  - md5 is taken to be injective on the modelled inputs: a source hash   *)
(*    is the tuple of the values that are formatted into the hashed text.  *)
(***************************************************************************)
EXTENDS Integers, Sequences, FiniteSets, TLC

\* ---------------------------------------------------------------- bounds
\* Latest value of the clock (ordinal of "today") in the run and modes models.
MaxToday == 2
\* The clock when the run model starts: 2025-01-02.
FirstToday == 1
\* Number of invocations of main() in one behaviour.
MaxRuns == 2
\* Longest result of one remote fetch.
MaxRows == 2
\* Days that all the runs of one behaviour of the run model process together.
MaxDays == 2
\* Rows that all the fetches of one behaviour of the run model return together.
MaxFetched == 3
\* Latest value of the clock and of the watermark in the planning model.
MaxPlanDay == 75

\* ---------------------------------------------------------------- values
None == <<>>

Some(v) == <<v>>

\* Python's "x or 0" on a nullable number.
OrZero(x) == IF x = None THEN 0 ELSE x[1]

\* Python's "x or 1" on a stored counter (0 and NULL are both falsy).
OrOne(n) == IF n = 0 THEN 1 ELSE n

\* ---------------------------------------------------------------- calendar
DaysInMonth(m) == IF m = 2 THEN 28 ELSE IF m \in {4, 6, 9, 11} THEN 30 ELSE 31

RECURSIVE DaysBefore(_)
\* Days of 2025 that precede the first day of month m.
DaysBefore(m) == IF m = 1 THEN 0 ELSE DaysBefore(m - 1) + DaysInMonth(m - 1)

RECURSIVE MonthOf(_, _)
\* The month of 2025 that holds the 0-based day-of-year n, searching from m.
MonthOf(n, m) == IF n < DaysBefore(m) + DaysInMonth(m) THEN m ELSE MonthOf(n, m + 1)

\* datetime.strftime('%Y-%m-%d')
strftime(n) ==
    IF n < 0 THEN <<2024, 12, 32 + n>>
    ELSE LET m == MonthOf(n, 1) IN <<2025, m, n - DaysBefore(m) + 1>>

\* datetime.strptime(s, '%Y-%m-%d')
strptime(s) ==
    IF s[1] = 2024 THEN s[3] - 32 ELSE DaysBefore(s[2]) + s[3] - 1

\* Python's s > t on two 'YYYY-MM-DD' strings.
StrGT(s, t) ==
    \/ s[1] > t[1]
    \/ s[1] = t[1] /\ s[2] > t[2]
    \/ s[1] = t[1] /\ s[2] = t[2] /\ s[3] > t[3]

get_yesterday(now) == strftime(now - 1)

get_prior_month_range(now) ==
    LET first_of_current == now - (strftime(now)[3] - 1)
        last_of_prior == first_of_current - 1
        first_of_prior == last_of_prior - (strftime(last_of_prior)[3] - 1)
    IN <<strftime(first_of_prior), strftime(last_of_prior)>>

\* The fixed start of a full sync, '2025-01-01'.
Epoch == <<2025, 1, 1>>


\* ---------------------------------------------------------------- planning
\* get_date_range starting an incremental range on the last synced day itself.
get_date_range_from_last(mode, data_type, status, now) ==
    LET end_date == get_yesterday(now)
        row == status[data_type]
        start_date ==
            IF mode = "incremental"
            THEN IF row # None /\ row[1].last_synced_date # None
                 THEN strftime(strptime(row[1].last_synced_date[1]))
                 ELSE Epoch
            ELSE Epoch
    IN <<start_date, end_date>>

\* get_date_range(mode, data_type): status is the sync_status table and now
\* the clock at the call.
get_date_range(mode, data_type, status, now) ==
    LET end_date == get_yesterday(now)
        row == status[data_type]
        start_date ==
            IF mode = "incremental"
            THEN IF row # None /\ row[1].last_synced_date # None
                 THEN strftime(strptime(row[1].last_synced_date[1]) + 1)
                 ELSE Epoch
            ELSE Epoch
    IN <<start_date, end_date>>

\* The "Get date range" block of main(): a is the parsed argument record.
PlannedRange(a, sync_mode, data_type, status, now) ==
    IF a.start_date # None /\ a.end_date # None
    THEN <<a.start_date[1], a.end_date[1]>>
    ELSE IF sync_mode = "prior_month_refresh"
         THEN get_prior_month_range(now)
         ELSE get_date_range(sync_mode, data_type, status, now)

\* Number of days the loop "while current <= end" visits.
Span(start_date, end_date) == strptime(end_date) - strptime(start_date) + 1

\* ---------------------------------------------------------------- remote rows
\* str.strip() on the text values the modelled remote source returns.
strip(s) == IF s = "A " THEN "A" ELSE IF s = "P " THEN "P" ELSE s

\* A row with a NULL quantity and padded text.
RowA1 ==
    [class_cde |-> Some("P "), smry_prdt_nme |-> "A", oi_qty |-> Some(1),
     rec_qty |-> None, ship_qty |-> Some(2), blend_qty |-> Some(0), ci_qty |-> Some(0)]

\* The product of RowA1 (after strip) with other quantities.
RowA2 ==
    [class_cde |-> Some("P "), smry_prdt_nme |-> "A ", oi_qty |-> Some(2),
     rec_qty |-> Some(0), ship_qty |-> Some(2), blend_qty |-> Some(2), ci_qty |-> Some(0)]

RowB ==
    [class_cde |-> None, smry_prdt_nme |-> "B", oi_qty |-> Some(0),
     rec_qty |-> Some(1), ship_qty |-> None, blend_qty |-> Some(2), ci_qty |-> Some(1)]

\* The order in which the stored procedure returns the modelled rows.
RemoteOrder == <<RowA1, RowA2, RowB>>

RECURSIVE Selections(_, _)
\* The sequences of at most n rows taken, in order, from RemoteOrder[k..].
Selections(k, n) ==
    IF k > Len(RemoteOrder) \/ n = 0 THEN {<<>>}
    ELSE Selections(k + 1, n)
         \cup {<<RemoteOrder[k]>> \o q : q \in Selections(k + 1, n - 1)}

\* Results of sql_cursor.fetchall() for one day.
FetchResults == Selections(1, MaxRows)

\* ---------------------------------------------------------------- reconciliation
compute_source_hash(oi, rec, ship, blend, ci) ==
    <<OrZero(oi), OrZero(rec), OrZero(ship), OrZero(blend), OrZero(ci)>>

\* The yield with shipments subtracted instead of added.
yield_of_less_ship(oi, rec, ship, blend, ci) ==
    OrZero(blend) + OrZero(ci) - OrZero(oi) - OrZero(rec) - OrZero(ship)

\* "Calculate yield" of sync_yield_data.
yield_of(oi, rec, ship, blend, ci) ==
    OrZero(blend) + OrZero(ci) - OrZero(oi) - OrZero(rec) + OrZero(ship)

\* The lookup with its WHERE clause on the wrong column (product_class).
Existing_by_class(table, date_str, product_name) ==
    LET ids == {i \in 1..Len(table) :
                  table[i].date = date_str /\ table[i].product_class = Some(product_name)}
    IN IF ids = {} THEN 0 ELSE CHOOSE i \in ids : \A j \in ids : i <= j

\* SELECT ... FROM yield_data WHERE date = ? AND product_name = ?; fetchone():
\* the id of the stored row, 0 when there is none.
Existing(table, date_str, product_name) ==
    LET ids == {i \in 1..Len(table) :
                  table[i].date = date_str /\ table[i].product_name = product_name}
    IN IF ids = {} THEN 0 ELSE CHOOSE i \in ids : \A j \in ids : i <= j

\* The row capture_yield_history inserts for the stored record.
HistoryRow(existing_record, id, sync_id, change_type) ==
    [original_id |-> id,
     date |-> existing_record.date,
     product_name |-> existing_record.product_name,
     product_class |-> existing_record.product_class,
     oi_qty |-> existing_record.oi_qty,
     rec_qty |-> existing_record.rec_qty,
     ship_qty |-> existing_record.ship_qty,
     blend_qty |-> existing_record.blend_qty,
     ci_qty |-> existing_record.ci_qty,
     yield_qty |-> existing_record.yield_qty,
     sync_id |-> sync_id,
     change_type |-> change_type,
     previous_yield_qty |-> existing_record.yield_qty]

\* capture_yield_history writing with INSERT OR REPLACE keyed on the record:
\* a later snapshot of a record takes the place of its earlier one.
capture_yield_history_replace(s, id, sync_id, change_type) ==
    LET prior == {i \in 1..Len(s.history) : s.history[i].original_id = id}
        snapshot == HistoryRow(s.view[id], id, sync_id, change_type)
    IN [s EXCEPT !.history = IF prior = {} THEN Append(@, snapshot)
                              ELSE [@ EXCEPT ![CHOOSE i \in prior : TRUE] = snapshot],
                 !.durable = s.view]

\* capture_yield_history: the INSERT and the conn.commit() that follows it.
\* The commit makes every pending write of the connection durable.
capture_yield_history(s, id, sync_id, change_type) ==
    [s EXCEPT !.history = Append(@, HistoryRow(s.view[id], id, sync_id, change_type)),
              !.durable = s.view]

\* The body of "for row in rows" for one row.  s holds the connection's view
\* of yield_data, the durable yield_data, the history table and stats.
\* write_raises: the final INSERT/UPDATE statement raises.
ReconcileRow(s, row, date_str, sync_id, sync_mode, now, write_raises) ==
    LET product_class == IF row.class_cde # None THEN Some(strip(row.class_cde[1])) ELSE None
        product_name == strip(row.smry_prdt_nme)
        oi == row.oi_qty
        rec == row.rec_qty
        ship == row.ship_qty
        blend == row.blend_qty
        ci == row.ci_qty
        yield_qty == yield_of(oi, rec, ship, blend, ci)
        source_hash == compute_source_hash(oi, rec, ship, blend, ci)
        existing == Existing(s.view, date_str, product_name)
    IN IF existing # 0 /\ s.view[existing].source_hash = source_hash
       THEN [s EXCEPT !.stats.unchanged = @ + 1]
       ELSE IF existing # 0
       THEN LET change_type == IF sync_mode = "prior_month_refresh"
                               THEN "prior_month_refresh" ELSE "update"
                s1 == capture_yield_history(s, existing, sync_id, change_type)
                s2 == [s1 EXCEPT !.stats.updated = @ + 1]
                sync_count == OrOne(s.view[existing].sync_count) + 1
            IN IF write_raises THEN [s2 EXCEPT !.raised = TRUE]
               ELSE [s2 EXCEPT !.view[existing] =
                        [@ EXCEPT !.product_class = product_class,
                                  !.oi_qty = oi, !.rec_qty = rec, !.ship_qty = ship,
                                  !.blend_qty = blend, !.ci_qty = ci,
                                  !.yield_qty = yield_qty,
                                  !.last_sync_id = sync_id,
                                  !.last_modified_at = now,
                                  !.sync_count = sync_count,
                                  !.source_hash = source_hash]]
       ELSE LET s2 == [s EXCEPT !.stats.inserted = @ + 1]
            IN IF write_raises THEN [s2 EXCEPT !.raised = TRUE]
               ELSE [s2 EXCEPT !.view = Append(@,
                        [date |-> date_str, product_name |-> product_name,
                         product_class |-> product_class,
                         oi_qty |-> oi, rec_qty |-> rec, ship_qty |-> ship,
                         blend_qty |-> blend, ci_qty |-> ci,
                         yield_qty |-> yield_qty,
                         last_sync_id |-> sync_id,
                         first_synced_at |-> now,
                         last_modified_at |-> now,
                         sync_count |-> 1,
                         source_hash |-> source_hash])]

RECURSIVE ReconcileRows(_, _, _, _, _, _, _, _, _)
\* "for row in rows" from row i on.  fail_at = 0: no row raises; otherwise
\* row fail_at raises, before any of its effects (fail_stage "read") or in
\* its final INSERT/UPDATE (fail_stage "write").
ReconcileRows(s, fetched, i, date_str, id, sync_mode, now, fail_at, fail_stage) ==
    IF i > Len(fetched) \/ s.raised THEN s
    ELSE IF i = fail_at /\ fail_stage = "read" THEN [s EXCEPT !.raised = TRUE]
    ELSE ReconcileRows(
            ReconcileRow(s, fetched[i], date_str, id, sync_mode, now,
                         i = fail_at /\ fail_stage = "write"),
            fetched, i + 1, date_str, id, sync_mode, now, fail_at, fail_stage)


\* ---------------------------------------------------------------- state
VARIABLES
    today,                  \* datetime.now(), as an ordinal
    runs,                   \* invocations of main() started so far
    pc,                     \* position of the process in main()/sync_yield_data
    args,                   \* parsed command line of the current invocation
    todo,                   \* data types main() still has to loop over
    start_time,             \* main(): start_time
    start_date, end_date,   \* main(): the planned range
    sync_id,                \* sync_yield_data: id of the run's sync_log row, 0 before
    stats,                  \* sync_yield_data: stats
    current,                \* sync_yield_data: current
    rows,                   \* sync_yield_data: rows, the last fetchall() result
    error,                  \* the exception being propagated, if any
    yield_data,             \* yield_data as the run's connection sees it
    yield_data_committed,   \* yield_data as it is durable
    yield_data_history,     \* yield_data_history table
    sync_log,               \* sync_log table
    sync_status,            \* sync_status table, one nullable row per data type
    out,                    \* per-day lines printed by the current invocation
    exit_code,              \* exit status of the last finished invocation
    records_synced,         \* sync_sales_data / sync_tank_data: records_synced
    sales_data,             \* sales_data as the run's connection sees it
    sales_data_committed,   \* sales_data as it is durable
    tank_data               \* tank_data table (durable)

vars ==
    <<today, runs, pc, args, todo, start_time, start_date, end_date, sync_id,
      stats, current, rows, error, yield_data, yield_data_committed,
      yield_data_history, sync_log, sync_status, out, exit_code,
      records_synced, sales_data, sales_data_committed, tank_data>>

\* Data types the modelled invocations select (--type).
DataTypes == {"yield"}

\* --mode, with --prior-month folded into prior_month_refresh.
Modes == {"full", "incremental", "prior_month_refresh"}

\* Command lines of the run model: full and incremental, no override.  (The
\* range of prior_month_refresh is a whole month; its planning, and that of
\* the overrides, is followed in the planning model.)
ArgSet ==
    [type : DataTypes, mode : {"full", "incremental"}, refresh_reason : {"scheduled"},
     start_date : {None}, end_date : {None}]

\* Messages of the modelled exceptions.
ConnectError == "cannot connect"

StoreError == "database is locked"

NoArgs ==
    [type |-> "yield", mode |-> "incremental", refresh_reason |-> "scheduled",
     start_date |-> None, end_date |-> None]

ZeroStats == [fetched |-> 0, inserted |-> 0, updated |-> 0, unchanged |-> 0, prev_changes |-> 0]

\* The state before the first invocation: empty tables, no process running.
Init ==
    /\ today = FirstToday
    /\ runs = 0
    /\ pc = "idle"
    /\ args = NoArgs
    /\ todo = <<>>
    /\ start_time = 0
    /\ start_date = Epoch
    /\ end_date = Epoch
    /\ sync_id = 0
    /\ stats = ZeroStats
    /\ current = 0
    /\ rows = <<>>
    /\ error = None
    /\ yield_data = <<>>
    /\ yield_data_committed = <<>>
    /\ yield_data_history = <<>>
    /\ sync_log = <<>>
    /\ sync_status = [t \in DataTypes |-> None]
    /\ out = <<>>
    /\ exit_code = None
    /\ records_synced = 0
    /\ sales_data = {}
    /\ sales_data_committed = {}
    /\ tank_data = {}

\* Variables of the local store.
store == <<yield_data, yield_data_committed, yield_data_history, sync_log, sync_status>>

\* Local variables of sync_yield_data.
locals == <<sync_id, stats, current, rows>>

\* State of the replace-window data types (sales, tank).
replaced == <<records_synced, sales_data, sales_data_committed, tank_data>>

\* ---------------------------------------------------------------- clock
\* A day passes between two invocations.
Tick ==
    /\ pc = "idle"
    /\ today < MaxToday
    /\ today' = today + 1
    /\ UNCHANGED <<runs, pc, args, todo, start_time, start_date, end_date, locals,
                   error, store, out, exit_code, replaced>>

\* ---------------------------------------------------------------- main
\* main() up to the loop over data_types.
Main(a) ==
    /\ pc = "idle"
    /\ runs < MaxRuns
    /\ runs' = runs + 1
    /\ args' = a
    /\ todo' = IF a.type = "all" THEN <<"yield", "sales", "tank">> ELSE <<a.type>>
    /\ out' = <<>>
    /\ exit_code' = None
    /\ pc' = "plan"
    /\ UNCHANGED <<today, start_time, start_date, end_date, locals, error, store, replaced>>

\* The end of one pass of "for data_type in data_types": the next data type,
\* or the end of main().
Continue(rest) ==
    /\ todo' = rest
    /\ start_time' = 0
    /\ IF rest = <<>>
       THEN pc' = "idle" /\ exit_code' = Some(0) /\ args' = NoArgs
       ELSE pc' = "plan" /\ UNCHANGED <<exit_code, args>>

\* main() without the "Skip if no dates to sync" block: the sync function is
\* called with whatever range was planned.
PlanRange_no_skip ==
    /\ pc = "plan"
    /\ LET range == PlannedRange(args, args.mode, Head(todo), sync_status, today)
       IN /\ start_date' = range[1]
          /\ end_date' = range[2]
    /\ pc' = "sync"
    /\ start_time' = today
    /\ UNCHANGED <<todo, exit_code, args>>
    /\ UNCHANGED <<today, runs, locals, error, store, out, replaced>>

\* main(): start_time and the "Get date range" block, then the empty-range skip.
PlanRange ==
    /\ pc = "plan"
    /\ LET range == PlannedRange(args, args.mode, Head(todo), sync_status, today)
       IN /\ start_date' = range[1]
          /\ end_date' = range[2]
          /\ IF StrGT(range[1], range[2])
             THEN Continue(Tail(todo))
             ELSE /\ pc' = "sync"
                  /\ start_time' = today
                  /\ UNCHANGED <<todo, exit_code, args>>
    /\ UNCHANGED <<today, runs, locals, error, store, out, replaced>>

\* update_sync_status: the upsert of the data type's sync_status row.
update_sync_status(table, data_type, status, records, duration_ms, err, now) ==
    [table EXCEPT ![data_type] =
        Some([last_synced_date |-> Some(get_yesterday(now)),
              last_sync_at |-> now,
              records_synced |-> records,
              sync_duration_ms |-> duration_ms,
              status |-> status,
              error_message |-> err])]

\* main(): after the sync function returned: update_sync_status(.., 'success', ..).
StatusSuccess ==
    /\ pc = "returned"
    /\ LET records == IF Head(todo) = "yield" THEN stats.fetched ELSE records_synced
       IN sync_status' = update_sync_status(sync_status, Head(todo), "success",
                                            records, today - start_time, None, today)
    /\ Continue(Tail(todo))
    /\ sync_id' = 0
    /\ stats' = ZeroStats
    /\ current' = 0
    /\ rows' = <<>>
    /\ records_synced' = 0
    /\ UNCHANGED <<today, runs, start_date, end_date, error,
                   yield_data, yield_data_committed, yield_data_history, sync_log, out,
                   sales_data, sales_data_committed, tank_data>>

\* main(): "except Exception as e": update_sync_status(.., 'error', 0, ..) and sys.exit(1).
StatusError ==
    /\ pc = "except"
    /\ sync_status' = update_sync_status(sync_status, Head(todo), "error",
                                         0, today - start_time, error, today)
    /\ pc' = "idle"
    /\ exit_code' = Some(1)
    /\ todo' = <<>>
    /\ start_time' = 0
    /\ error' = None
    /\ sync_id' = 0
    /\ stats' = ZeroStats
    /\ current' = 0
    /\ rows' = <<>>
    /\ args' = NoArgs
    /\ records_synced' = 0
    /\ UNCHANGED <<today, runs, start_date, end_date,
                   yield_data, yield_data_committed, yield_data_history, sync_log, out,
                   sales_data, sales_data_committed, tank_data>>


\* ---------------------------------------------------------------- sync_log
\* create_sync_log_entry inserting a row that is already closed.
create_sync_log_entry_closed(data_type, sync_mode, sync_reason, start, end, now) ==
    [data_type |-> data_type, sync_mode |-> sync_mode, sync_reason |-> sync_reason,
     date_range_start |-> start, date_range_end |-> end,
     started_at |-> now, status |-> "success", completed_at |-> Some(now),
     records_fetched |-> None, records_inserted |-> None,
     records_updated |-> None, records_unchanged |-> None,
     error_message |-> None]

\* create_sync_log_entry: the inserted row (status 'running').
create_sync_log_entry(data_type, sync_mode, sync_reason, start, end, now) ==
    [data_type |-> data_type, sync_mode |-> sync_mode, sync_reason |-> sync_reason,
     date_range_start |-> start, date_range_end |-> end,
     started_at |-> now, status |-> "running", completed_at |-> None,
     records_fetched |-> None, records_inserted |-> None,
     records_updated |-> None, records_unchanged |-> None,
     error_message |-> None]

\* update_sync_log_completion without its WHERE clause: every row is updated.
update_sync_log_completion_all(table, id, status, st, error_message, now) ==
    [i \in 1..Len(table) |->
        [table[i] EXCEPT !.completed_at = Some(now),
                         !.status = status,
                         !.records_fetched = Some(st.fetched),
                         !.records_inserted = Some(st.inserted),
                         !.records_updated = Some(st.updated),
                         !.records_unchanged = Some(st.unchanged),
                         !.error_message = error_message]]

\* update_sync_log_completion: the UPDATE of row id.
update_sync_log_completion(table, id, status, st, error_message, now) ==
    [table EXCEPT ![id] =
        [@ EXCEPT !.completed_at = Some(now),
                  !.status = status,
                  !.records_fetched = Some(st.fetched),
                  !.records_inserted = Some(st.inserted),
                  !.records_updated = Some(st.updated),
                  !.records_unchanged = Some(st.unchanged),
                  !.error_message = error_message]]

\* ---------------------------------------------------------------- sync_yield_data
\* The connections are opened and the sync_log row is created.
Begin ==
    /\ pc = "sync"
    /\ Head(todo) = "yield"
    /\ sync_log' = Append(sync_log,
                          create_sync_log_entry("yield", args.mode, args.refresh_reason,
                                                start_date, end_date, today))
    /\ sync_id' = Len(sync_log) + 1
    /\ stats' = ZeroStats
    /\ current' = strptime(start_date)
    /\ rows' = <<>>
    /\ pc' = "loop"
    /\ UNCHANGED <<today, runs, args, todo, start_time, start_date, end_date, error,
                   yield_data, yield_data_committed, yield_data_history, sync_status,
                   out, exit_code, replaced>>

\* get_sql_server_connection() raises: the exception leaves sync_yield_data
\* before the sync_log row is created.
BeginRaises ==
    /\ pc = "sync"
    /\ Head(todo) = "yield"
    /\ error' = Some(ConnectError)
    /\ pc' = "except"
    /\ UNCHANGED <<today, runs, args, todo, start_time, start_date, end_date, locals,
                   store, out, exit_code, replaced>>

\* The rows of one day are reconciled: the statements of the inner try block
\* after fetchall().
DayBody(fetched, fail_at, fail_stage) ==
    ReconcileRows([view |-> yield_data, durable |-> yield_data_committed,
                   history |-> yield_data_history,
                   stats |-> [stats EXCEPT !.fetched = @ + Len(fetched)],
                   raised |-> FALSE],
                  fetched, 1, strftime(current), sync_id, args.mode, today,
                  fail_at, fail_stage)

\* What one pass of the while loop leaves unchanged.
DayFrame ==
    UNCHANGED <<today, runs, pc, args, todo, start_time, start_date, end_date,
                sync_id, error, sync_log, sync_status, exit_code, replaced>>

\* One pass of the while loop in which nothing raises: the day is committed.
ProcessDay(fetched) ==
    /\ pc = "loop"
    /\ current <= strptime(end_date)
    /\ rows' = fetched
    /\ LET r == DayBody(fetched, 0, "read")
       IN /\ yield_data' = r.view
          /\ yield_data_committed' = r.view
          /\ yield_data_history' = r.history
          /\ stats' = [r.stats EXCEPT !.prev_changes = r.stats.inserted + r.stats.updated]
    /\ out' = Append(out, <<strftime(current), "ok">>)
    /\ current' = current + 1
    /\ DayFrame

\* One pass of the while loop in which a row raises: the exception is printed
\* and the loop goes on; nothing is committed or rolled back here.
ProcessDayRaises(fetched, fail_at, fail_stage) ==
    /\ pc = "loop"
    /\ current <= strptime(end_date)
    /\ rows' = fetched
    /\ LET r == DayBody(fetched, fail_at, fail_stage)
       IN /\ r.raised
          /\ yield_data' = r.view
          /\ yield_data_committed' = r.durable
          /\ yield_data_history' = r.history
          /\ stats' = r.stats
    /\ out' = Append(out, <<strftime(current), "Error">>)
    /\ current' = current + 1
    /\ DayFrame

\* The remote call raises and there is no inner try block: the exception
\* reaches the outer except block and ends the loop.
FetchRaises_escapes ==
    /\ pc = "loop"
    /\ current <= strptime(end_date)
    /\ error' = Some("fetch failed")
    /\ pc' = "handler"
    /\ UNCHANGED <<today, runs, args, todo, start_time, start_date, end_date, locals,
                   store, out, exit_code, replaced>>

\* One pass of the while loop in which the remote call raises.
FetchRaises ==
    /\ pc = "loop"
    /\ current <= strptime(end_date)
    /\ out' = Append(out, <<strftime(current), "Error">>)
    /\ current' = current + 1
    /\ DayFrame
    /\ UNCHANGED <<stats, rows, yield_data, yield_data_committed, yield_data_history>>

\* The loop is over: update_sync_log_completion(.., 'success', ..) with its
\* commit, the finally block, return stats.
Complete ==
    /\ pc = "loop"
    /\ current > strptime(end_date)
    /\ sync_log' = update_sync_log_completion(sync_log, sync_id, "success", stats, None, today)
    /\ yield_data_committed' = yield_data
    /\ pc' = "returned"
    /\ current' = 0
    /\ rows' = <<>>
    /\ UNCHANGED <<today, runs, args, todo, start_time, start_date, end_date, sync_id, stats,
                   error, yield_data, yield_data_history, sync_status, out, exit_code,
                   replaced>>

\* The loop is over and update_sync_log_completion(.., 'success', ..) raises:
\* control passes to the outer except block.
CompleteRaises ==
    /\ pc = "loop"
    /\ current > strptime(end_date)
    /\ error' = Some(StoreError)
    /\ pc' = "handler"
    /\ UNCHANGED <<today, runs, args, todo, start_time, start_date, end_date, locals,
                   store, out, exit_code, replaced>>

\* The outer except block: update_sync_log_completion(.., 'failed', .., str(e))
\* with its commit, raise, the finally block.
Failed ==
    /\ pc = "handler"
    /\ sync_log' = update_sync_log_completion(sync_log, sync_id, "failed", stats, error, today)
    /\ yield_data_committed' = yield_data
    /\ pc' = "except"
    /\ current' = 0
    /\ rows' = <<>>
    /\ UNCHANGED <<today, runs, args, todo, start_time, start_date, end_date, sync_id, stats,
                   error, yield_data, yield_data_history, sync_status, out, exit_code,
                   replaced>>

\* The outer except block when its update_sync_log_completion raises too: the
\* finally block closes the connection, which drops the uncommitted writes.
FailedRaises ==
    /\ pc = "handler"
    /\ yield_data' = yield_data_committed
    /\ error' = Some(StoreError)
    /\ pc' = "except"
    /\ current' = 0
    /\ rows' = <<>>
    /\ UNCHANGED <<today, runs, args, todo, start_time, start_date, end_date, sync_id, stats,
                   yield_data_committed, yield_data_history, sync_log, sync_status,
                   out, exit_code, replaced>>

\* ---------------------------------------------------------------- sync_sales_data
\* The divisor of "dividing by 42 to convert gallons to barrels".
GallonsPerBarrel == 42

\* Rows of the sales stored procedure.  The volumes are whole barrels, so the
\* division by 42 is exact.
SaleX ==
    [prdt_nme |-> "X", prdt_desc_txt |-> "x", cust_nme |-> "c", trns_type_cde |-> "S",
     vol_qty_tr |-> 42, vol_qty_h2o |-> 0, vol_qty_pl |-> 84, vol_qty_os |-> 0]

SaleY ==
    [prdt_nme |-> "Y", prdt_desc_txt |-> "y", cust_nme |-> "c", trns_type_cde |-> "S",
     vol_qty_tr |-> 0, vol_qty_h2o |-> 42, vol_qty_pl |-> 0, vol_qty_os |-> 0]

\* The order in which the sales procedure returns the modelled rows.
SalesOrder == <<SaleX, SaleY>>

RECURSIVE Fetches(_, _, _)
\* The sequences of at most n rows taken, in order, from order[k..].
Fetches(order, k, n) ==
    IF k > Len(order) \/ n = 0 THEN {<<>>}
    ELSE Fetches(order, k + 1, n)
         \cup {<<order[k]>> \o q : q \in Fetches(order, k + 1, n - 1)}

\* Results of sql_cursor.fetchall() for one day of sales.
SalesFetchResults == Fetches(SalesOrder, 1, MaxRows)

\* The row that the INSERT OR REPLACE of sync_sales_data writes.
SalesRecord(row, date_str) ==
    LET vol_tr == row.vol_qty_tr \div GallonsPerBarrel
        vol_h2o == row.vol_qty_h2o \div GallonsPerBarrel
        vol_pl == row.vol_qty_pl \div GallonsPerBarrel
        vol_os == row.vol_qty_os \div GallonsPerBarrel
    IN [date |-> date_str, product_name |-> row.prdt_nme,
        product_desc |-> row.prdt_desc_txt, customer_name |-> row.cust_nme,
        transaction_type |-> row.trns_type_cde,
        vol_qty_tr |-> vol_tr, vol_qty_h2o |-> vol_h2o, vol_qty_pl |-> vol_pl,
        vol_qty_os |-> vol_os, vol_qty_total |-> vol_tr + vol_h2o + vol_pl + vol_os]

RECURSIVE InsertSales(_, _, _, _, _)
\* "for row in rows" of sync_sales_data from row i on; row fail_at raises
\* (fail_at = 0: no row raises).  The rows of one modelled fetch differ in
\* product, so OR REPLACE never finds a row to replace.
InsertSales(s, fetched, i, date_str, fail_at) ==
    IF i > Len(fetched) THEN s
    ELSE IF i = fail_at THEN [s EXCEPT !.raised = TRUE]
    ELSE InsertSales([s EXCEPT !.view = @ \cup {SalesRecord(fetched[i], date_str)},
                               !.records_synced = @ + 1],
                     fetched, i + 1, date_str, fail_at)

\* The statements of the try block of sync_sales_data after fetchall(): the
\* DELETE of the day's rows and the inserts.
SalesDayBody(fetched, fail_at) ==
    InsertSales([view |-> {r \in sales_data : r.date # strftime(current)},
                 records_synced |-> records_synced, raised |-> FALSE],
                fetched, 1, strftime(current), fail_at)

\* The connections are opened; current, end and records_synced are set.
SalesBegin ==
    /\ pc = "sync"
    /\ Head(todo) = "sales"
    /\ current' = strptime(start_date)
    /\ records_synced' = 0
    /\ pc' = "sales"
    /\ UNCHANGED <<today, runs, args, todo, start_time, start_date, end_date, sync_id,
                   stats, rows, error, store, out, exit_code,
                   sales_data, sales_data_committed, tank_data>>

\* get_sql_server_connection() raises in sync_sales_data.
SalesBeginRaises ==
    /\ pc = "sync"
    /\ Head(todo) = "sales"
    /\ error' = Some(ConnectError)
    /\ pc' = "except"
    /\ UNCHANGED <<today, runs, args, todo, start_time, start_date, end_date, locals,
                   store, out, exit_code, replaced>>

\* What one pass of the while loop of sync_sales_data leaves unchanged.
SalesFrame ==
    UNCHANGED <<today, runs, pc, args, todo, start_time, start_date, end_date,
                sync_id, stats, error, store, exit_code, tank_data>>

\* One pass of the loop in which nothing raises: the day is committed.
SalesDay(fetched) ==
    /\ pc = "sales"
    /\ current <= strptime(end_date)
    /\ rows' = fetched
    /\ LET r == SalesDayBody(fetched, 0)
       IN /\ sales_data' = r.view
          /\ sales_data_committed' = r.view
          /\ records_synced' = r.records_synced
    /\ out' = Append(out, <<strftime(current), "ok">>)
    /\ current' = current + 1
    /\ SalesFrame

\* One pass of the loop in which a row raises (a NULL volume in the division,
\* or the INSERT): the exception is printed, nothing is committed or rolled back.
SalesDayRaises(fetched, fail_at) ==
    /\ pc = "sales"
    /\ current <= strptime(end_date)
    /\ rows' = fetched
    /\ LET r == SalesDayBody(fetched, fail_at)
       IN /\ r.raised
          /\ sales_data' = r.view
          /\ records_synced' = r.records_synced
    /\ out' = Append(out, <<strftime(current), "Error">>)
    /\ current' = current + 1
    /\ SalesFrame
    /\ UNCHANGED sales_data_committed

\* One pass of the loop in which the remote call raises, before the DELETE.
SalesFetchRaises ==
    /\ pc = "sales"
    /\ current <= strptime(end_date)
    /\ out' = Append(out, <<strftime(current), "Error">>)
    /\ current' = current + 1
    /\ SalesFrame
    /\ UNCHANGED <<rows, records_synced, sales_data, sales_data_committed>>

\* The loop is over: the connections are closed (uncommitted writes are
\* dropped) and records_synced is returned.
SalesReturn ==
    /\ pc = "sales"
    /\ current > strptime(end_date)
    /\ sales_data' = sales_data_committed
    /\ pc' = "returned"
    /\ current' = 0
    /\ rows' = <<>>
    /\ UNCHANGED <<today, runs, args, todo, start_time, start_date, end_date, sync_id,
                   stats, error, store, out, exit_code, records_synced,
                   sales_data_committed, tank_data>>

\* ---------------------------------------------------------------- sync_tank_data
\* Rows of the tank query for the range: one of the first day, one of the last.
TankOrder(start, end) ==
    <<[date |-> strptime(start), tank_name |-> Some("A "), product_name |-> Some("P "),
       hc_volume |-> Some(1), h2o_volume |-> Some(0)],
      [date |-> strptime(end), tank_name |-> Some("B"), product_name |-> None,
       hc_volume |-> Some(2), h2o_volume |-> Some(1)]>>

\* Results of sql_cursor.fetchall() for the range.
TankFetchResults(start, end) == Fetches(TankOrder(start, end), 1, MaxRows)

\* The row that the INSERT OR REPLACE of sync_tank_data writes.
TankRecord(row) ==
    LET hc_vol == OrZero(row.hc_volume)
        h2o_vol == OrZero(row.h2o_volume)
    IN [date |-> strftime(row.date),
        tank_name |-> IF row.tank_name # None THEN strip(row.tank_name[1]) ELSE "",
        product_name |-> IF row.product_name # None THEN strip(row.product_name[1]) ELSE "",
        hc_volume |-> hc_vol, h2o_volume |-> h2o_vol, total_volume |-> hc_vol + h2o_vol]

\* DELETE FROM tank_data WHERE date BETWEEN start AND end: the rows that stay.
TankOutside(table, start, end) ==
    {r \in table : StrGT(start, r.date) \/ StrGT(r.date, end)}

\* sync_tank_data when nothing raises: the range is fetched, deleted,
\* re-inserted and committed.
TankSync(fetched) ==
    /\ pc = "sync"
    /\ Head(todo) = "tank"
    /\ rows' = fetched
    /\ tank_data' = TankOutside(tank_data, start_date, end_date)
                        \cup {TankRecord(fetched[i]) : i \in 1..Len(fetched)}
    /\ records_synced' = Len(fetched)
    /\ out' = Append(out, <<start_date, "ok">>)
    /\ pc' = "returned"
    /\ UNCHANGED <<today, runs, args, todo, start_time, start_date, end_date, sync_id,
                   stats, current, error, store, exit_code,
                   sales_data, sales_data_committed>>

\* sync_tank_data when the query, the DELETE or an INSERT raises: the
\* exception is printed, records_synced = 0, and the connection is closed
\* without a commit.
TankSyncRaises ==
    /\ pc = "sync"
    /\ Head(todo) = "tank"
    /\ records_synced' = 0
    /\ out' = Append(out, <<start_date, "Error">>)
    /\ pc' = "returned"
    /\ UNCHANGED <<today, runs, args, todo, start_time, start_date, end_date, locals,
                   error, store, exit_code, sales_data, sales_data_committed, tank_data>>

\* get_sql_server_connection() raises in sync_tank_data.
TankBeginRaises ==
    /\ pc = "sync"
    /\ Head(todo) = "tank"
    /\ error' = Some(ConnectError)
    /\ pc' = "except"
    /\ UNCHANGED <<today, runs, args, todo, start_time, start_date, end_date, locals,
                   store, out, exit_code, replaced>>


\* ---------------------------------------------------------------- specifications
RECURSIVE DaysLogged(_)
\* Days in the ranges of the runs that sync_log records.
DaysLogged(log) ==
    IF log = <<>> THEN 0
    ELSE Span(Head(log).date_range_start, Head(log).date_range_end) + DaysLogged(Tail(log))

RECURSIVE RowsLogged(_)
\* Rows fetched by the runs that sync_log records as finalized.
RowsLogged(log) ==
    IF log = <<>> THEN 0
    ELSE OrZero(Head(log).records_fetched) + RowsLogged(Tail(log))

\* The results fetchall() can still return within MaxFetched.
FetchResultsLeft ==
    LET left == MaxFetched - RowsLogged(sync_log) - stats.fetched
    IN {f \in FetchResults : Len(f) <= left}

Next ==
    \/ Tick
    \/ \E a \in ArgSet : Main(a)
    \/ PlanRange /\ DaysLogged(sync_log) + Span(start_date', end_date') <= MaxDays
    \/ Begin
    \/ BeginRaises
    \/ \E fetched \in FetchResultsLeft : ProcessDay(fetched)
    \/ \E fetched \in FetchResultsLeft :
          \E fail_at \in 1..Len(fetched), fail_stage \in {"read", "write"} :
              ProcessDayRaises(fetched, fail_at, fail_stage)
    \/ FetchRaises
    \/ Complete
    \/ CompleteRaises
    \/ Failed
    \/ FailedRaises
    \/ StatusSuccess
    \/ StatusError

Spec == Init /\ [][Next]_vars


\* ---------------------------------------------------------------- planning model
\* Command lines of the planning model: each override given or not.
PlanArgSet ==
    [type : DataTypes, mode : Modes, refresh_reason : {"scheduled"},
     start_date : {None, Some(<<2025, 1, 20>>)}, end_date : {None, Some(<<2025, 2, 10>>)}]

\* sync_status rows of the planning model: the cursor is NULL or a date
\* from 2024-12-31 to the latest day of the planning model.
PlanWatermarks ==
    {None} \cup
    {Some([last_synced_date |-> d, last_sync_at |-> 0, records_synced |-> 0,
           sync_duration_ms |-> 0, status |-> "success", error_message |-> None]) :
        d \in {None} \cup {Some(strftime(n)) : n \in (0 - 1)..MaxPlanDay}}

\* main() is about to plan the range of one data type, at any clock and
\* with any watermark.
InitPlan ==
    /\ today \in 0..MaxPlanDay
    /\ runs = 1
    /\ pc = "plan"
    /\ args \in PlanArgSet
    /\ todo = <<"yield">>
    /\ start_time = 0
    /\ start_date = Epoch
    /\ end_date = Epoch
    /\ sync_id = 0
    /\ stats = ZeroStats
    /\ current = 0
    /\ rows = <<>>
    /\ error = None
    /\ yield_data = <<>>
    /\ yield_data_committed = <<>>
    /\ yield_data_history = <<>>
    /\ sync_log = <<>>
    /\ sync_status \in [DataTypes -> PlanWatermarks]
    /\ out = <<>>
    /\ exit_code = None
    /\ records_synced = 0
    /\ sales_data = {}
    /\ sales_data_committed = {}
    /\ tank_data = {}

NextPlan == PlanRange

SpecPlan == InitPlan /\ [][NextPlan]_vars


\* ---------------------------------------------------------------- datasets model
\* One invocation of main() over one data type or all of them, started on a
\* store that earlier invocations of the same day have left.

\* The data types of --type all.
AllDataTypes == {"yield", "sales", "tank"}

\* Command lines of the datasets model: one data type or all of them.
DatasetArgSet ==
    [type : AllDataTypes \cup {"all"}, mode : {"full", "incremental"},
     refresh_reason : {"scheduled"}, start_date : {None}, end_date : {None}]

\* Results of the yield procedure in the datasets model: its last row or none.
DatasetYieldFetches == Selections(Len(RemoteOrder), 1)

\* The dates of a full range planned at the clock now.
FullRangeDates(now) == {strftime(n) : n \in strptime(Epoch)..(now - 1)}

\* What an earlier run of data type t at the clock now has left, as
\* <<sync_status row, sales_data, tank_data>>: a yield run whose remote
\* connection failed (no sync_log row, no record), a full sales run that
\* stored SaleX on every day, a full tank run that stored its first row.
EarlierRun(t, now) ==
    LET n == Cardinality(FullRangeDates(now))
        status == [tt \in AllDataTypes |-> None]
    IN IF t = "yield"
       THEN <<update_sync_status(status, t, "error", 0, 0, Some(ConnectError), now)[t], {}, {}>>
       ELSE IF t = "sales"
       THEN <<update_sync_status(status, t, "success", n, 0, None, now)[t],
              {SalesRecord(SaleX, d) : d \in FullRangeDates(now)}, {}>>
       ELSE <<update_sync_status(status, t, "success", 1, 0, None, now)[t],
              {}, {TankRecord(TankOrder(Epoch, get_yesterday(now))[1])}>>

\* The state before the invocation: each data type has never been synced
\* or has been synced earlier on the same day.
InitDatasets ==
    /\ today = MaxToday
    /\ runs = MaxRuns - 1
    /\ pc = "idle"
    /\ args = NoArgs
    /\ todo = <<>>
    /\ start_time = 0
    /\ start_date = Epoch
    /\ end_date = Epoch
    /\ sync_id = 0
    /\ stats = ZeroStats
    /\ current = 0
    /\ rows = <<>>
    /\ error = None
    /\ yield_data = <<>>
    /\ yield_data_committed = <<>>
    /\ yield_data_history = <<>>
    /\ sync_log = <<>>
    /\ out = <<>>
    /\ exit_code = None
    /\ records_synced = 0
    /\ \E ran \in SUBSET AllDataTypes :
          /\ sync_status = [t \in AllDataTypes |->
                               IF t \in ran THEN EarlierRun(t, today)[1] ELSE None]
          /\ sales_data = IF "sales" \in ran THEN EarlierRun("sales", today)[2] ELSE {}
          /\ sales_data_committed = sales_data
          /\ tank_data = IF "tank" \in ran THEN EarlierRun("tank", today)[3] ELSE {}

NextDatasets ==
    \/ \E a \in DatasetArgSet : Main(a)
    \/ PlanRange /\ Span(start_date', end_date') <= MaxDays
    \/ Begin
    \/ BeginRaises
    \/ \E fetched \in DatasetYieldFetches : ProcessDay(fetched)
    \/ \E fetched \in DatasetYieldFetches : ProcessDayRaises(fetched, 1, "write")
    \/ FetchRaises
    \/ Complete
    \/ CompleteRaises
    \/ Failed
    \/ FailedRaises
    \/ SalesBegin
    \/ SalesBeginRaises
    \/ \E fetched \in SalesFetchResults : SalesDay(fetched)
    \/ \E fetched \in SalesFetchResults :
          \E fail_at \in 1..Len(fetched) : SalesDayRaises(fetched, fail_at)
    \/ SalesFetchRaises
    \/ SalesReturn
    \/ \E fetched \in TankFetchResults(start_date, end_date) : TankSync(fetched)
    \/ TankSyncRaises
    \/ TankBeginRaises
    \/ StatusSuccess
    \/ StatusError

SpecDatasets == InitDatasets /\ [][NextDatasets]_vars


\* ---------------------------------------------------------------- modes model
\* Successful yield invocations of every mode, with and without the override
\* options, on days whose remote procedure returns no row.

\* Command lines of the modes model: --start-date and --end-date each given
\* (as the first day of 2025) or not.
ModesArgSet ==
    [type : DataTypes, mode : Modes, refresh_reason : {"scheduled"},
     start_date : {None, Some(Epoch)}, end_date : {None, Some(Epoch)}]

NextModes ==
    \/ Tick
    \/ \E a \in ModesArgSet : Main(a)
    \/ PlanRange
    \/ Begin
    \/ ProcessDay(<<>>)
    \/ Complete
    \/ StatusSuccess

SpecModes == Init /\ [][NextModes]_vars


\* ---------------------------------------------------------------- properties

\* C1: replaying the rows of a day that was just reconciled and committed
\* classifies every row UNCHANGED, adds no history row, counts no insert and
\* no update, and leaves every stored record as it is.
ReplayIsIdempotent ==
    (pc = "loop" /\ out # <<>> /\ out[Len(out)][2] = "ok") =>
        LET r == ReconcileRows([view |-> yield_data, durable |-> yield_data_committed,
                                history |-> yield_data_history, stats |-> ZeroStats,
                                raised |-> FALSE],
                               rows, 1, out[Len(out)][1], sync_id, args.mode, today,
                               0, "read")
        IN /\ r.stats.unchanged = Len(rows)
           /\ r.stats.inserted = 0
           /\ r.stats.updated = 0
           /\ r.history = yield_data_history
           /\ r.view = yield_data

\* C2: the sync_status write of a run that failed fatally leaves
\* last_synced_date as it was before the run (absent stays absent).
CursorKeptOnFailure ==
    [][(pc = "except" /\ pc' = "idle") =>
          /\ sync_status'[Head(todo)] # None
          /\ sync_status'[Head(todo)][1].last_synced_date =
                IF sync_status[Head(todo)] = None THEN None
                ELSE sync_status[Head(todo)][1].last_synced_date]_vars

\* C3: after a run in which day d failed, last_synced_date is earlier than d.
CursorBeforeFailedDay ==
    (pc = "idle" /\ exit_code = Some(0)) =>
        \A i \in 1..Len(out) :
            (out[i][2] = "Error" /\ sync_status["yield"] # None) =>
                /\ sync_status["yield"][1].last_synced_date # None
                /\ StrGT(out[i][1], sync_status["yield"][1].last_synced_date[1])

\* C4: a day that fails leaves the durable records and history rows as they
\* were before the day and leaves no write of the day pending for a later
\* commit.
FailedDayWritesNothing ==
    [][(pc = "loop" /\ Len(out') > Len(out) /\ out'[Len(out')][2] = "Error") =>
          /\ yield_data_committed' = yield_data_committed
          /\ yield_data_history' = yield_data_history
          /\ yield_data' = yield_data_committed']_vars

\* C5: every history row that exists stays, with the same values, in every
\* later state: the history table only grows at its end.
HistoryAppendOnly ==
    [][/\ Len(yield_data_history') >= Len(yield_data_history)
       /\ SubSeq(yield_data_history', 1, Len(yield_data_history)) = yield_data_history]_vars

\* C5 witness: a run added a history row after an earlier run had added one.
HistoryFromTwoRuns ==
    /\ Len(yield_data_history) >= 2
    /\ yield_data_history[1].sync_id # yield_data_history[Len(yield_data_history)].sync_id

FatalRunFinalized ==
    pc = "except" =>
        /\ sync_id # 0
        /\ sync_log[sync_id].status = "failed"
        /\ sync_log[sync_id].error_message # None

\* C8: the days of the range are attempted once each in ascending order, a
\* day that fails does not end the loop, a day that does not fail is
\* committed, and the run is then finalized success (the failed branch is
\* entered only after the last day, when the finalizing write itself raises).
PerDayFailuresNonFatal ==
    /\ []((sync_id # 0 /\ pc \in {"loop", "handler", "returned"}) =>
            /\ \A i \in 1..Len(out) : out[i][1] = strftime(strptime(start_date) + i - 1)
            /\ (pc = "loop" => Len(out) = current - strptime(start_date))
            /\ (pc # "loop" => Len(out) = Span(start_date, end_date)))
    /\ [][pc = "loop" =>
            /\ pc' \in {"loop", "handler", "returned"}
            /\ (Len(out') > Len(out) /\ out'[Len(out')][2] = "ok") =>
                    yield_data_committed' = yield_data'
            /\ pc' = "returned" => sync_log'[sync_id].status = "success"
            /\ pc' = "handler" =>
                    current > strptime(end_date) /\ error' = Some(StoreError)]_vars

\* C8 witness: a two-day run whose first day failed and whose second day
\* was committed has been finalized success.
FailedDayThenCommittedDay ==
    /\ pc = "returned"
    /\ Len(out) = 2
    /\ out[1][2] = "Error"
    /\ out[2][2] = "ok"
    /\ sync_log[sync_id].status = "success"
    /\ \E i \in 1..Len(yield_data_committed) : yield_data_committed[i].date = out[2][1]

\* C9: with no override, end is the day before today; a full range starts
\* at 2025-01-01; an incremental range starts the day after last_synced_date
\* when there is one and at 2025-01-01 otherwise.
RangePlanning ==
    [][(/\ pc = "plan"
        /\ args.start_date = None
        /\ args.end_date = None
        /\ args.mode # "prior_month_refresh") =>
          LET row == sync_status[Head(todo)]
              cursor == IF row = None THEN None ELSE row[1].last_synced_date
          IN /\ strptime(end_date') = today - 1
             /\ end_date'[3] \in 1..DaysInMonth(end_date'[2])
             /\ start_date'[3] \in 1..DaysInMonth(start_date'[2])
             /\ args.mode = "full" => start_date' = <<2025, 1, 1>>
             /\ (args.mode = "incremental" /\ cursor = None) => start_date' = <<2025, 1, 1>>
             /\ (args.mode = "incremental" /\ cursor # None) =>
                    strptime(start_date') = strptime(cursor[1]) + 1
             /\ (args.mode = "incremental" /\ cursor = Some(<<2025, 3, 10>>)
                   /\ strftime(today) = <<2025, 3, 15>>) =>
                    start_date' = <<2025, 3, 11>> /\ end_date' = <<2025, 3, 14>>]_vars

\* C9 witness: the incremental plan of 2025-03-15 over the cursor 2025-03-10.
PlannedFromCursor ==
    /\ pc = "sync"
    /\ args.mode = "incremental"
    /\ args.start_date = None /\ args.end_date = None
    /\ sync_status["yield"] # None
    /\ sync_status["yield"][1].last_synced_date = Some(<<2025, 3, 10>>)
    /\ start_date = <<2025, 3, 11>>
    /\ end_date = <<2025, 3, 14>>

\* C10: a supplied --start-date is the planned start and a supplied
\* --end-date is the planned end, whether or not the other one is supplied.
OverrideTakesPrecedence ==
    [][pc = "plan" =>
          /\ args.start_date # None => start_date' = args.start_date[1]
          /\ args.end_date # None => end_date' = args.end_date[1]]_vars

\* C11: when the planned range of a data type is empty (its start is a later
\* day than its end), the data type is skipped: no sync_log row is created,
\* no record, history row or sync_status row changes, no error is raised,
\* and main() goes on to the next data type or ends with exit status 0.
EmptyPlanIsNoOp ==
    [][(pc = "plan" /\ strptime(start_date') > strptime(end_date')) =>
          /\ UNCHANGED <<yield_data, yield_data_committed, yield_data_history,
                         sync_log, sync_status, sales_data, sales_data_committed,
                         tank_data>>
          /\ error' = None
          /\ todo' = Tail(todo)
          /\ IF Tail(todo) = <<>>
             THEN pc' = "idle" /\ exit_code' = Some(0)
             ELSE pc' = "plan" /\ exit_code' = None]_vars

\* C11 witness: in an invocation over all data types the plan for yield was
\* empty, and main() is about to plan sales.
EmptyPlanSkipped ==
    /\ pc = "plan"
    /\ args.type = "all"
    /\ todo = <<"sales", "tank">>
    /\ StrGT(start_date, end_date)
    /\ sync_log = <<>>
    /\ sync_status["sales"] = None

\* C12: an invocation ends only after the last selected data type has been
\* attempted, also when the run of a data type failed fatally, and its exit
\* status is 1 exactly when a data type failed fatally.
AllDatasetsAttempted ==
    [][(pc # "idle" /\ pc' = "idle") =>
          /\ Tail(todo) = <<>>
          /\ (exit_code' = Some(1)) = (pc = "except")
          /\ exit_code' \in {Some(0), Some(1)}]_vars

\* C13: every attempt of a replace-window reconciliation leaves the durable
\* rows of its window equal to the rows just fetched for it when it
\* succeeded and as they were when it failed, and leaves the durable rows
\* outside its window unchanged (a day for sales, the whole range for tank).
ReplaceWindowConverges ==
    [][/\ (pc = "sales" /\ Len(out') > Len(out)) =>
            LET d == strftime(current)
                Inside(t) == {r \in t : r.date = d}
                Outside(t) == {r \in t : r.date # d}
            IN /\ Outside(sales_data_committed') = Outside(sales_data_committed)
               /\ IF out'[Len(out')][2] = "ok"
                  THEN Inside(sales_data_committed') =
                          {SalesRecord(rows'[i], d) : i \in 1..Len(rows')}
                  ELSE Inside(sales_data_committed') = Inside(sales_data_committed)
       /\ (pc = "sync" /\ Head(todo) = "tank" /\ pc' = "returned") =>
            LET Inside(t) == t \ TankOutside(t, start_date, end_date)
            IN /\ TankOutside(tank_data', start_date, end_date) =
                     TankOutside(tank_data, start_date, end_date)
               /\ IF out'[Len(out')][2] = "ok"
                  THEN Inside(tank_data') = {TankRecord(rows'[i]) : i \in 1..Len(rows')}
                  ELSE Inside(tank_data') = Inside(tank_data)]_vars

\* C14: the sync_status row is written only by main() after the sync
\* function has returned or raised, and by then the run has visited every
\* day of its range and its sync_log row is finalized (success or failed).
WatermarkAfterFinalizedRun ==
    [][sync_status' # sync_status =>
          /\ pc \in {"returned", "except"}
          /\ pc' \in {"idle", "plan"}
          /\ sync_id # 0
          /\ sync_log[sync_id].status \in {"success", "failed"}
          /\ Len(out) = Span(start_date, end_date)]_vars

\* C15: every write of a data type's sync_status row is that of a run that
\* has its own finalized sync_log row, recording the data type, the mode,
\* the reason and the planned range.
OneSyncRunPerAttempt ==
    [][sync_status' # sync_status =>
          \E i \in 1..Len(sync_log) :
              /\ sync_log[i].data_type = Head(todo)
              /\ sync_log[i].sync_mode = args.mode
              /\ sync_log[i].sync_reason = args.refresh_reason
              /\ sync_log[i].date_range_start = start_date
              /\ sync_log[i].date_range_end = end_date
              /\ sync_log[i].status \in {"success", "failed"}]_vars

\* C16: yield_data, as the run's connection sees it and as it is durable,
\* holds at most one record for each (date, product_name).
RecordsUnique ==
    \A table \in {yield_data, yield_data_committed} :
        \A i, j \in 1..Len(table) :
            (table[i].date = table[j].date /\ table[i].product_name = table[j].product_name)
                => i = j

\* C16 witness: a committed day whose fetch held the same product twice has
\* left one record of that product, written twice.
DuplicateProductOneRecord ==
    /\ pc = "loop"
    /\ out # <<>>
    /\ out[Len(out)][2] = "ok"
    /\ rows = <<RowA1, RowA2>>
    /\ Cardinality({i \in 1..Len(yield_data_committed) :
                       /\ yield_data_committed[i].date = out[Len(out)][1]
                       /\ yield_data_committed[i].product_name = "A"}) = 1
    /\ \E i \in 1..Len(yield_data_committed) :
          /\ yield_data_committed[i].date = out[Len(out)][1]
          /\ yield_data_committed[i].sync_count >= 2

\* C17: every stored yield record carries the source hash of its own stored
\* quantities (NULL as zero) and the yield blend + ci - oi - rec + ship of
\* those quantities; for oi=10, rec=5, ship=20, blend=3, ci=2 the yield is 10.
FingerprintNeverStale ==
    /\ \A table \in {yield_data, yield_data_committed} :
          \A i \in 1..Len(table) :
              LET r == table[i]
              IN /\ r.source_hash =
                       compute_source_hash(r.oi_qty, r.rec_qty, r.ship_qty,
                                           r.blend_qty, r.ci_qty)
                 /\ r.yield_qty = OrZero(r.blend_qty) + OrZero(r.ci_qty)
                                    - OrZero(r.oi_qty) - OrZero(r.rec_qty)
                                    + OrZero(r.ship_qty)
    /\ yield_of(Some(10), Some(5), Some(20), Some(3), Some(2)) = 10

\* C17 witness: a durable record that has been overwritten holds a NULL
\* quantity and the yield 1 of the row that overwrote it.
OverwrittenRecordWithNull ==
    \E i \in 1..Len(yield_data_committed) :
        /\ yield_data_committed[i].sync_count >= 2
        /\ yield_data_committed[i].rec_qty = None
        /\ yield_data_committed[i].yield_qty = 1

\* C18: when no invocation is running, every yield record has one history
\* row for each time it was overwritten (sync_count - 1 of them), and there
\* is no history row of a change that was not applied to its record.
HistoryMatchesOverwrites ==
    pc = "idle" =>
        /\ \A i \in 1..Len(yield_data_committed) :
              Cardinality({h \in 1..Len(yield_data_history) :
                              yield_data_history[h].original_id = i})
                 = yield_data_committed[i].sync_count - 1
        /\ \A h \in 1..Len(yield_data_history) :
              yield_data_history[h].original_id \in 1..Len(yield_data_committed)

\* C19: the last_sync_id of every yield record and the sync_id of every
\* history row is the id of a sync_log row of a yield run that was started
\* no later than the write; and every record or history row that a step
\* writes carries the id of the run in progress, whose sync_log row is
\* running before and after the step.
SyncRunBeforeWrites ==
    /\ [](/\ \A table \in {yield_data, yield_data_committed} :
               \A i \in 1..Len(table) :
                   /\ table[i].last_sync_id \in 1..Len(sync_log)
                   /\ sync_log[table[i].last_sync_id].data_type = "yield"
                   /\ sync_log[table[i].last_sync_id].started_at <= table[i].last_modified_at
          /\ \A h \in 1..Len(yield_data_history) :
                /\ yield_data_history[h].sync_id \in 1..Len(sync_log)
                /\ sync_log[yield_data_history[h].sync_id].data_type = "yield")
    /\ [][LET Running ==
                /\ sync_id \in 1..Len(sync_log)
                /\ sync_log[sync_id].status = "running"
                /\ sync_log'[sync_id].status = "running"
          IN /\ \A i \in 1..Len(yield_data') :
                  (i > Len(yield_data) \/ yield_data'[i] # yield_data[i]) =>
                      \/ yield_data' = yield_data_committed
                      \/ yield_data'[i].last_sync_id = sync_id /\ Running
             /\ \A h \in 1..Len(yield_data_history') :
                  h > Len(yield_data_history) =>
                      yield_data_history'[h].sync_id = sync_id /\ Running]_vars

\* C19 witness: while the second run is running it has overwritten a record
\* and written its history row, after the first run was finalized.
SecondRunWroteWhileRunning ==
    /\ pc = "loop"
    /\ sync_id = 2
    /\ sync_log[1].status = "success"
    /\ sync_log[2].status = "running"
    /\ \E i \in 1..Len(yield_data) :
          yield_data[i].last_sync_id = 2 /\ yield_data[i].sync_count >= 2
    /\ \E h \in 1..Len(yield_data_history) : yield_data_history[h].sync_id = 2

\* C20: a day that fails leaves the run's counters as they were before the
\* day, and every finalized sync_log row has
\* records_fetched = records_inserted + records_updated + records_unchanged.
FailedDayCountsNothing ==
    /\ [][(pc = "loop" /\ Len(out') > Len(out) /\ out'[Len(out')][2] = "Error") =>
             stats' = stats]_vars
    /\ [](\A i \in 1..Len(sync_log) :
             sync_log[i].status # "running" =>
                 sync_log[i].records_fetched[1] =
                     sync_log[i].records_inserted[1] + sync_log[i].records_updated[1]
                       + sync_log[i].records_unchanged[1])

\* C21: in every pass of the day loop a yield record is created with
\* sync_count = 1 and first_synced_at set to the time of the run, every
\* UPDATE classification of the pass (stats.updated) raises the sync_count
\* of a record by exactly 1, a record whose sync_count was raised has
\* last_sync_id set to the current run, and a record whose sync_count was
\* not raised is unchanged; and first_synced_at of a durable record never
\* changes from one state to the next.
AuditFieldEvolution ==
    /\ [][(pc = "loop" /\ Len(out') > Len(out)) =>
            LET before(i) == IF i <= Len(yield_data) THEN yield_data[i].sync_count ELSE 1
                raises == UNION {{<<i, k>> : k \in 1..(yield_data'[i].sync_count - before(i))} :
                                    i \in 1..Len(yield_data')}
            IN /\ Cardinality(raises) = stats'.updated - stats.updated
               /\ \A i \in 1..Len(yield_data') :
                     /\ yield_data'[i].sync_count >= before(i)
                     /\ i > Len(yield_data) => yield_data'[i].first_synced_at = today
                     /\ (i > Len(yield_data) \/ yield_data'[i].sync_count > before(i)) =>
                            yield_data'[i].last_sync_id = sync_id
                     /\ (i <= Len(yield_data) /\ yield_data'[i].sync_count = before(i)) =>
                            yield_data'[i] = yield_data[i]]_vars
    /\ [][/\ Len(yield_data_committed') >= Len(yield_data_committed)
          /\ \A i \in 1..Len(yield_data_committed) :
                yield_data_committed'[i].first_synced_at
                    = yield_data_committed[i].first_synced_at]_vars

\* C22: whenever the sync_status row of a data type is written, its
\* last_synced_date is not later than the end date of the range the run has
\* processed; and when no invocation is running every date from 2025-01-01
\* up to last_synced_date lies inside the range of a sync_log row of a
\* successful run.
NoGapWatermark ==
    /\ [][sync_status' # sync_status =>
             ~StrGT(sync_status'["yield"][1].last_synced_date[1], end_date)]_vars
    /\ []((pc = "idle" /\ sync_status["yield"] # None) =>
             \A n \in strptime(Epoch)..strptime(sync_status["yield"][1].last_synced_date[1]) :
                 \E i \in 1..Len(sync_log) :
                     /\ sync_log[i].status = "success"
                     /\ strptime(sync_log[i].date_range_start) <= n
                     /\ n <= strptime(sync_log[i].date_range_end))

====
